---- MODULE Spec2Model ----
(***************************************************************************)
(* Model of the inverted index of src/indexing.py (InvertedIndex: build,   *)
(* scoring, ranked search, the three persistence formats) and of the       *)
(* SearchEngine wrapper of src/search_engine.py.                           *)
(*                                                                         *)
(* Representation.                                                         *)
(*  - A dictionary is a function; its key set is its DOMAIN.               *)
(*  - A document-id key is a pair <<type, n>>: <<"int", n>> is the Python  *)
(*    int n, <<"str", n>> the Python str holding the decimal digits of n.  *)
(*    The two are different keys, as in Python (0 != "0").                 *)
(*  - A float is a rational <<num, den>> with den > 0; scores are fixed    *)
(*    point integers (natural logarithms times 10^4).               *)
(***************************************************************************)
EXTENDS Integers, Sequences, FiniteSets, TLC

\* ------------------------------------------------------------- bounds
\* corpora of the search specification
MaxDocs == 2
MaxTokens == 2
\* corpora of the persistence specification
MaxCodecDocs == 3
MaxCodecTokens == 1
\* corpora of the search engine specification (tokens as for persistence)
MaxEngineDocs == 2
\* corpora of the concurrent readers specification (tokens as for persistence)
MaxReaderDocs == 1
\* corpora of the rebuild specification (tokens as for persistence)
MaxBuildDocs == 2
\* the empty documents of the sparse corpus of the scoring specification
MaxPad == 200
\* the term frequencies of the term-frequency specification
MaxTf == 4
\* the characters of a content string of the snippet specification
MaxContent == 4

\* ------------------------------------------------------------- inputs
Terms == {"a", "b"}
QueryTerms == Terms \cup {"z"}
TokenSeqs(max) == UNION {[1 .. n -> Terms] : n \in 0 .. max}
MaxTopK == MaxDocs
TopKs == 1 .. MaxTopK
Queries ==
  { <<>>, <<"a">>, <<"b">>, <<"z">>, <<"a", "b">>, <<"z", "a">>,
    <<"a", "a", "b">> }

\* ------------------------------------------------------------- helpers
EmptyMap == [x \in {} |-> 0]

IntKey(n) == <<"int", n>>
StrKey(n) == <<"str", n>>
\* str(k) / f"{k}" of a key, and int(s) of a digit string
KeyText(k) == k[2]
ParseInt(n) == IntKey(n)
\* json.dump turns every dictionary key into a string
JsonKey(k) == StrKey(KeyText(k))

\* sorted(S): the i-th element has i - 1 elements of S below it
SetToSortedSeq(S) ==
  [i \in 1 .. Cardinality(S) |->
     CHOOSE x \in S : Cardinality({y \in S : y < x}) = i - 1]

RECURSIVE Gcd(_, _)
Gcd(a, b) == IF b = 0 THEN a ELSE Gcd(b, a % b)

\* a float as a rational; two floats are equal iff the rationals are
Rat(n, d) == <<n, d>>
RatEq(x, y) == x[1] * y[2] = y[1] * x[2]

\* ------------------------------------------------------------- InvertedIndex
\* InvertedIndex.__init__
NewIndex ==
  [index |-> EmptyMap, doc_lengths |-> EmptyMap, num_docs |-> 0,
   avg_doc_length |-> Rat(0, 1)]

\* the count set to 1 whatever it was
Increment_once(index, token, doc_id) ==
  (token :> ((doc_id :> 1)
             @@ (IF token \in DOMAIN index THEN index[token] ELSE EmptyMap)))
    @@ index

\* self.index[token][doc_id] += 1 on the nested defaultdict
Increment(index, token, doc_id) ==
  LET posting == IF token \in DOMAIN index THEN index[token] ELSE EmptyMap
      old == IF doc_id \in DOMAIN posting THEN posting[doc_id] ELSE 0
  IN (token :> ((doc_id :> (old + 1)) @@ posting)) @@ index

RECURSIVE AddTokens(_, _, _)
AddTokens(index, doc_id, tokens) ==
  IF tokens = <<>> THEN index
  ELSE AddTokens(Increment(index, Head(tokens), doc_id), doc_id, Tail(tokens))

\* doc['id'] and doc['tokens']: a document is a dictionary, and reading a
\* key it lacks raises KeyError
HasKeys(doc) == "id" \in DOMAIN doc /\ "tokens" \in DOMAIN doc

\* a loop body that records the number of distinct tokens as the length
BuildStep_distinct(self, total_length, doc) ==
  IF ~HasKeys(doc)
  THEN [self |-> self, total_length |-> total_length, err |-> "KeyError"]
  ELSE [self |-> [self EXCEPT
                    !.doc_lengths =
                       (IntKey(doc.id)
                          :> Cardinality({doc.tokens[i] : i \in DOMAIN doc.tokens}))
                         @@ self.doc_lengths,
                    !.index = AddTokens(self.index, IntKey(doc.id), doc.tokens)],
        total_length |-> total_length + Len(doc.tokens),
        err |-> "none"]

\* the body of the loop over the documents of build_index for one document
BuildStep(self, total_length, doc) ==
  IF ~HasKeys(doc)
  THEN [self |-> self, total_length |-> total_length, err |-> "KeyError"]
  ELSE [self |-> [self EXCEPT
                    !.doc_lengths = (IntKey(doc.id) :> Len(doc.tokens))
                                      @@ self.doc_lengths,
                    !.index = AddTokens(self.index, IntKey(doc.id), doc.tokens)],
        total_length |-> total_length + Len(doc.tokens),
        err |-> "none"]

\* the loop over the documents of build_index: self after the documents
\* docs, with total_length the running total; the loop ends where a
\* document lacks a key, with self as the documents before it left it.
\* The documents are taken in order, the first half and then the rest.
RECURSIVE BuildLoop(_, _, _)
RECURSIVE BuildRest(_, _)
BuildLoop(self, total_length, docs) ==
  IF docs = <<>>
  THEN [self |-> self, total_length |-> total_length, err |-> "none"]
  ELSE IF Len(docs) = 1 THEN BuildStep(self, total_length, docs[1])
  ELSE BuildRest(BuildLoop(self, total_length, SubSeq(docs, 1, Len(docs) \div 2)),
                 SubSeq(docs, Len(docs) \div 2 + 1, Len(docs)))
BuildRest(done, docs) ==
  IF done.err # "none" THEN done
  ELSE BuildLoop(done.self, done.total_length, docs)

\* the average taken over one document too many
AvgOf_offbyone(total_length, num_docs) ==
  IF num_docs > 0 THEN Rat(total_length, num_docs + 1) ELSE Rat(0, 1)

AvgOf(total_length, num_docs) ==
  IF num_docs > 0 THEN Rat(total_length, num_docs) ELSE Rat(0, 1)

\* InvertedIndex.build_index on the object self with the documents read
\* from the corpus file
FinishBuild(done) ==
  IF done.err # "none" THEN done.self
  ELSE [done.self EXCEPT
          !.avg_doc_length = AvgOf(done.total_length, done.self.num_docs)]

build_index(self, docs) ==
  FinishBuild(BuildLoop([self EXCEPT !.num_docs = Len(docs)], 0, docs))

\* the exception build_index ends with on these documents, or "none"
build_index_raises(self, docs) ==
  BuildLoop([self EXCEPT !.num_docs = Len(docs)], 0, docs).err

\* ------------------------------------------------------------- scoring
\* math.log on the arguments scoring produces: 10^4 * ln(n) for n = 1..16,
\* built from ln 2, ln 3, ln 5, ln 7, ln 11, ln 13 so that ln(x*y) = ln x + ln y
LnTable ==
  <<0, 6931, 10986, 13862, 16094, 17917, 19459, 20793, 21972, 23025,
    23979, 24848, 25649, 26390, 27080, 27724>>

\* beyond the table ln n is taken as ln 2 + ln (n div 2): exact for the
\* even n, below ln n by less than 1/(n - 1) for the odd ones
RECURSIVE Ln(_)
Ln(n) == IF n \in DOMAIN LnTable THEN LnTable[n] ELSE LnTable[2] + Ln(n \div 2)

\* math.log(n / d) for integers n, d; the Python errors are kept
LogReduced(n, d, g) ==
  [err |-> "none", v |-> Ln(n \div g) - Ln(d \div g)]

LogRatio(n, d) ==
  IF d = 0 THEN [err |-> "ZeroDivisionError", v |-> 0]
  ELSE IF n <= 0 THEN [err |-> "ValueError", v |-> 0]
  ELSE LogReduced(n, d, Gcd(n, d))

RECURSIVE Factorial(_)
Factorial(n) == IF n <= 1 THEN 1 ELSE n * Factorial(n - 1)
\* TF-IDF scores are kept times LenScale, a multiple of every document length
LenScale == Factorial(MaxTokens + MaxCodecTokens)

\* a membership test that always succeeds: the access after it inserts
Contains_always(index, term) == TRUE

\* `term in self.index`
Contains(index, term) == term \in DOMAIN index

\* defaultdict.__getitem__: a missing key is inserted with the default value
GetItem(index, term) ==
  IF term \in DOMAIN index
  THEN [dict |-> index, value |-> index[term]]
  ELSE [dict |-> (term :> EmptyMap) @@ index, value |-> EmptyMap]

\* self.index.get(term, {}): the value, and the dictionary after the access
DictGet(index, term) ==
  [dict |-> index,
   value |-> IF term \in DOMAIN index THEN index[term] ELSE EmptyMap]

get_document_frequency(self, term) ==
  Cardinality(DOMAIN DictGet(self.index, term).value)

\* posting.get(doc_id, 0)
PostingGet(posting, doc_id) ==
  IF doc_id \in DOMAIN posting THEN posting[doc_id] ELSE 0

get_term_frequency(self, term, doc_id) ==
  PostingGet(DictGet(self.index, term).value, doc_id)

get_posting_list(self, term) == DictGet(self.index, term).value

\* the idf without the "+ 1": ln((N - df + 0.5) / (df + 0.5))
IdfOf_unsmoothed(num_docs, df) ==
  IF df = 0 THEN [err |-> "none", v |-> 0]
  ELSE LogRatio(2 * num_docs - 2 * df + 1, 2 * df + 1)

\* ln((N - df + 0.5) / (df + 0.5) + 1) = ln((2N + 2) / (2df + 1))
IdfOf(num_docs, df) ==
  IF df = 0 THEN [err |-> "none", v |-> 0]
  ELSE LogRatio(2 * num_docs + 2, 2 * df + 1)

calculate_idf(self, term) ==
  IdfOf(self.num_docs, get_document_frequency(self, term))

\* default parameters of calculate_bm25_score, as rationals
DefaultK1 == Rat(3, 2)
DefaultB == Rat(3, 4)

\* adding one term's contribution to the running score; an error ends it
AddScore(t, rest) ==
  IF t.err # "none" THEN t
  ELSE IF rest.err # "none" THEN rest
  ELSE [err |-> "none", v |-> t.v + rest.v]

\* a BM25 term whose denominator grows with the square of tf
Bm25Formula_squared(tf, idf, an, ad, doc_length, k1, b) ==
  IF idf.err # "none" THEN idf
  ELSE IF an = 0 THEN [err |-> "ZeroDivisionError", v |-> 0]
  ELSE [err |-> "none",
        v |-> (idf.v * (tf * (k1[1] + k1[2]) * b[2] * an))
              \div (tf * tf * k1[2] * b[2] * an
                    + k1[1] * ((b[2] - b[1]) * an + b[1] * doc_length * ad))]

\* one BM25 term: idf * tf*(k1+1) / (tf + k1*(1 - b + b*(doc_length/avg)))
\* with avg = an/ad, k1 and b rationals
Bm25Formula(tf, idf, an, ad, doc_length, k1, b) ==
  IF idf.err # "none" THEN idf
  ELSE IF an = 0 THEN [err |-> "ZeroDivisionError", v |-> 0]
  ELSE [err |-> "none",
        v |-> (idf.v * (tf * (k1[1] + k1[2]) * b[2] * an))
              \div (tf * k1[2] * b[2] * an
                    + k1[1] * ((b[2] - b[1]) * an + b[1] * doc_length * ad))]

Bm25Term(self, term, doc_id, doc_length, k1, b) ==
  Bm25Formula(get_term_frequency(self, term, doc_id),
              calculate_idf(self, term),
              self.avg_doc_length[1], self.avg_doc_length[2],
              doc_length, k1, b)

RECURSIVE Bm25Loop(_, _, _, _, _, _)
Bm25Loop(self, query_tokens, doc_id, doc_length, k1, b) ==
  IF query_tokens = <<>> THEN [err |-> "none", v |-> 0]
  ELSE IF ~Contains(self.index, Head(query_tokens))
  THEN Bm25Loop(self, Tail(query_tokens), doc_id, doc_length, k1, b)
  ELSE AddScore(Bm25Term(self, Head(query_tokens), doc_id, doc_length, k1, b),
                Bm25Loop(self, Tail(query_tokens), doc_id, doc_length, k1, b))

\* self.doc_lengths.get(doc_id, 0)
DocLength(self, doc_id) ==
  IF doc_id \in DOMAIN self.doc_lengths THEN self.doc_lengths[doc_id] ELSE 0

calculate_bm25_score(self, query_tokens, doc_id, k1, b) ==
  IF DocLength(self, doc_id) = 0 THEN [err |-> "none", v |-> 0]
  ELSE Bm25Loop(self, query_tokens, doc_id, DocLength(self, doc_id), k1, b)

\* the idf of one more document than there are: ln((N + 1) / df)
TfidfIdf_smoothed(num_docs, df) ==
  IF df > 0 THEN LogRatio(num_docs + 1, df) ELSE [err |-> "none", v |-> 0]

\* math.log(self.num_docs / df) if df > 0 else 0
TfidfIdf(num_docs, df) ==
  IF df > 0 THEN LogRatio(num_docs, df) ELSE [err |-> "none", v |-> 0]

\* one TF-IDF term: (tf / doc_length) * idf
TfidfFormula(tf, idf, doc_length) ==
  IF idf.err # "none" THEN idf
  ELSE [err |-> "none", v |-> (tf * idf.v * LenScale) \div doc_length]

TfidfTerm(self, term, doc_id, doc_length) ==
  TfidfFormula(get_term_frequency(self, term, doc_id),
               TfidfIdf(self.num_docs, get_document_frequency(self, term)),
               doc_length)

RECURSIVE TfidfLoop(_, _, _, _)
TfidfLoop(self, query_tokens, doc_id, doc_length) ==
  IF query_tokens = <<>> THEN [err |-> "none", v |-> 0]
  ELSE IF ~Contains(self.index, Head(query_tokens))
  THEN TfidfLoop(self, Tail(query_tokens), doc_id, doc_length)
  ELSE AddScore(TfidfTerm(self, Head(query_tokens), doc_id, doc_length),
                TfidfLoop(self, Tail(query_tokens), doc_id, doc_length))

calculate_tfidf_score(self, query_tokens, doc_id) ==
  IF DocLength(self, doc_id) = 0 THEN [err |-> "none", v |-> 0]
  ELSE TfidfLoop(self, query_tokens, doc_id, DocLength(self, doc_id))

\* ------------------------------------------------------------- search
\* the first loop of search / search_tfidf: the candidate set, and the
\* object after the dictionary accesses the loop makes
AfterGetItem(self, got) == [self EXCEPT !.index = got.dict]

RECURSIVE CollectCandidates(_, _, _)
CollectCandidates(self, query_tokens, candidates) ==
  IF query_tokens = <<>>
  THEN [self |-> self, candidate_docs |-> candidates]
  ELSE IF Contains(self.index, Head(query_tokens))
  THEN CollectCandidates(
         AfterGetItem(self, GetItem(self.index, Head(query_tokens))),
         Tail(query_tokens),
         candidates \cup DOMAIN GetItem(self.index, Head(query_tokens)).value)
  ELSE CollectCandidates(self, Tail(query_tokens), candidates)

\* the candidates of the first query token only
candidate_docs_first(self, query_tokens) ==
  CollectCandidates(self, SelectSeq(query_tokens,
                                    LAMBDA t : t = Head(query_tokens)),
                    {}).candidate_docs

candidate_docs(self, query_tokens) ==
  CollectCandidates(self, query_tokens, {}).candidate_docs

\* the enumeration orders of a set: Python fixes none
Orders(S) ==
  {o \in [1 .. Cardinality(S) -> S] : \A i, j \in DOMAIN o : i # j => o[i] # o[j]}

\* both searches scoring with TF-IDF
ScoreOf_tfidf(self, algorithm, query_tokens, doc_id) ==
  calculate_tfidf_score(self, query_tokens, doc_id)

ScoreOf(self, algorithm, query_tokens, doc_id) ==
  IF algorithm = "bm25"
  THEN calculate_bm25_score(self, query_tokens, doc_id, DefaultK1, DefaultB)
  ELSE calculate_tfidf_score(self, query_tokens, doc_id)

\* the filter letting zero scores through
KeepScore_nonneg(score) == score >= 0

\* `if score > 0`
KeepScore(score) == score > 0

\* `if score > 0: scores.append((doc_id, score))`, before the later ones
AppendScore(doc_id, score, rest) ==
  IF score.err # "none" THEN [err |-> score.err, v |-> <<>>]
  ELSE IF rest.err # "none" THEN rest
  ELSE IF KeepScore(score.v)
  THEN [err |-> "none", v |-> <<<<doc_id, score.v>>>> \o rest.v]
  ELSE rest

\* the second loop: (doc_id, score) for the candidates, in enumeration order
RECURSIVE ScoreLoop(_, _, _, _)
ScoreLoop(self, algorithm, query_tokens, order) ==
  IF order = <<>> THEN [err |-> "none", v |-> <<>>]
  ELSE AppendScore(Head(order),
                   ScoreOf(self, algorithm, query_tokens, Head(order)),
                   ScoreLoop(self, algorithm, query_tokens, Tail(order)))

\* list.sort(key=score, reverse=True): stable, equal scores keep their order
RECURSIVE InsertByScore(_, _)
InsertByScore(sorted, x) ==
  IF sorted = <<>> THEN <<x>>
  ELSE IF Head(sorted)[2] >= x[2]
       THEN <<Head(sorted)>> \o InsertByScore(Tail(sorted), x)
       ELSE <<x>> \o sorted

RECURSIVE SortByScore(_, _)
SortByScore(sorted, scores) ==
  IF scores = <<>> THEN sorted
  ELSE SortByScore(InsertByScore(sorted, Head(scores)), Tail(scores))

\* the slice that forgets the cut
SliceLen_nocut(n, top_k) == n

\* scores[:top_k]
SliceLen(n, top_k) ==
  IF top_k >= 0 THEN (IF top_k < n THEN top_k ELSE n)
  ELSE (IF n + top_k > 0 THEN n + top_k ELSE 0)
Slice(scores, top_k) == SubSeq(scores, 1, SliceLen(Len(scores), top_k))

\* a ranking that reads the top score of the list, which an empty list lacks
RankScores_topscore(self, scored, top_k) ==
  [self |-> self,
   err |-> IF scored.err # "none" THEN scored.err
           ELSE IF scored.v = <<>> THEN "IndexError" ELSE "none",
   value |-> IF scored.err # "none" \/ scored.v = <<>> THEN <<>>
             ELSE Slice(SortByScore(<<>>, scored.v), top_k)]

\* sort and cut of the scored candidates
RankScores(self, scored, top_k) ==
  [self |-> self,
   err |-> scored.err,
   value |-> IF scored.err # "none" THEN <<>>
             ELSE Slice(SortByScore(<<>>, scored.v), top_k)]

SearchFrom(c, algorithm, query_tokens, top_k, order) ==
  RankScores(c.self, ScoreLoop(c.self, algorithm, query_tokens, order), top_k)

\* InvertedIndex.search (algorithm "bm25") and search_tfidf ("tfidf"), with
\* the candidate set enumerated in the order `order`
search(self, algorithm, query_tokens, top_k, order) ==
  SearchFrom(CollectCandidates(self, query_tokens, {}), algorithm,
             query_tokens, top_k, order)

\* ------------------------------------------------------------- SearchEngine
\* self.corpus[doc_id]: a list indexed by position
CorpusLookup(corpus, doc_id) ==
  IF doc_id[1] # "int" THEN [err |-> "TypeError", doc |-> <<>>]
  ELSE IF doc_id[2] >= Len(corpus) THEN [err |-> "IndexError", doc |-> <<>>]
  ELSE [err |-> "none", doc |-> corpus[doc_id[2] + 1]]

\* search_results.append({...}) for one result, before the later ones
AppendRecord(result, found, rest, label) ==
  IF found.err # "none" THEN [err |-> found.err, value |-> <<>>]
  ELSE IF rest.err # "none" THEN rest
  ELSE [err |-> "none",
        value |-> <<[doc_id |-> result[1], score |-> result[2],
                     doc |-> found.doc, algorithm |-> label]>> \o rest.value]

RECURSIVE BuildRecords(_, _, _)
BuildRecords(corpus, results, label) ==
  IF results = <<>> THEN [err |-> "none", value |-> <<>>]
  ELSE AppendRecord(Head(results), CorpusLookup(corpus, Head(results)[1]),
                    BuildRecords(corpus, Tail(results), label), label)

EngineResult(r, recs) ==
  [self |-> r.self,
   err |-> IF r.err # "none" THEN r.err ELSE recs.err,
   value |-> IF r.err # "none" THEN <<>> ELSE recs.value,
   results |-> r.value]

EngineRecords(r, corpus, label) ==
  EngineResult(r, BuildRecords(corpus, r.value, label))

\* SearchEngine.search_bm25 / search_tfidf on the tokens preprocess returned
engine_search(index, corpus, algorithm, query_tokens, top_k, order) ==
  IF query_tokens = <<>>
  THEN [self |-> index, err |-> "none", value |-> <<>>, results |-> <<>>]
  ELSE EngineRecords(search(index, algorithm, query_tokens, top_k, order),
                     corpus, IF algorithm = "bm25" THEN "BM25" ELSE "TF-IDF")

\* ------------------------------------------------------------- persistence
\* 1. pickle: index_data as written by pickle.dump and read by pickle.load
save_pickle(self) ==
  [index |-> self.index, doc_lengths |-> self.doc_lengths,
   num_docs |-> self.num_docs, avg_doc_length |-> self.avg_doc_length]

\* load_index forgetting to restore the document lengths
load_index_nolengths(index_data) ==
  [index |-> index_data.index, doc_lengths |-> EmptyMap,
   num_docs |-> index_data.num_docs,
   avg_doc_length |-> index_data.avg_doc_length]

\* InvertedIndex.load_index
load_index(index_data) ==
  [index |-> index_data.index, doc_lengths |-> index_data.doc_lengths,
   num_docs |-> index_data.num_docs,
   avg_doc_length |-> index_data.avg_doc_length]

\* 2. text.  f"{x:.2f}": x rounded to hundredths, half to even
Round2(x) ==
  LET q == (100 * x[1]) \div x[2]
      r == (100 * x[1]) % x[2]
  IN IF 2 * r < x[2] THEN q
     ELSE IF 2 * r > x[2] THEN q + 1
     ELSE q + (q % 2)

\* sorted() of strings and of int keys
AllTermsSorted == <<"a", "b", "c", "z">>
SortedTerms(index) ==
  SelectSeq(AllTermsSorted, LAMBDA t : t \in DOMAIN index)
SortedKeys(K) ==
  LET ns == SetToSortedSeq({k[2] : k \in K})
  IN [i \in DOMAIN ns |-> CHOOSE k \in K : k[2] = ns[i]]

\* one line of the text file: its leading words and the fields written in it
Line(kind, term, n, pairs) ==
  [kind |-> kind, term |-> term, n |-> n, pairs |-> pairs]

\* "(Doc{doc_id}: {tf})" for the sorted postings of one term
PostingPairs(posting) ==
  LET ks == SortedKeys(DOMAIN posting)
  IN [i \in DOMAIN ks |-> <<KeyText(ks[i]), posting[ks[i]]>>]

RECURSIVE TermBlocks(_, _)
TermBlocks(index, terms) ==
  IF terms = <<>> THEN <<>>
  ELSE LET term == Head(terms)
       IN << Line("TERM:", term, 0, <<>>),
             Line("Document Frequency:", "", Cardinality(DOMAIN index[term]), <<>>),
             Line("Postings:", "", 0, PostingPairs(index[term])) >>
          \o TermBlocks(index, Tail(terms))

DocLengthLines(doc_lengths) ==
  LET ks == SortedKeys(DOMAIN doc_lengths)
  IN [i \in DOMAIN ks |->
        Line("Doc", "", doc_lengths[ks[i]], <<KeyText(ks[i])>>)]

\* the text file written by save_index, without its blank and rule lines
save_text(self) ==
  << Line("INVERTED INDEX - TEXT FORMAT", "", 0, <<>>),
     Line("Total Documents:", "", self.num_docs, <<>>),
     Line("Total Unique Terms:", "", Cardinality(DOMAIN self.index), <<>>),
     Line("Average Document Length:", "", Round2(self.avg_doc_length), <<>>),
     Line("INVERTED INDEX:", "", 0, <<>>) >>
  \o TermBlocks(self.index, SortedTerms(self.index))
  \o << Line("DOCUMENT LENGTHS:", "", 0, <<>>) >>
  \o DocLengthLines(self.doc_lengths)
  \o << Line("END OF INDEX", "", 0, <<>>) >>

\* the postings parsed without int(doc_id): the keys stay strings
RECURSIVE ParsePostings_strkeys(_, _)
ParsePostings_strkeys(posting, pairs) ==
  IF pairs = <<>> THEN posting
  ELSE ParsePostings_strkeys((StrKey(Head(pairs)[1]) :> Head(pairs)[2]) @@ posting,
                             Tail(pairs))

\* re.findall(r'\(Doc(\d+):\s*(\d+)\)') and the assignments of the matches
RECURSIVE ParsePostings(_, _)
ParsePostings(posting, pairs) ==
  IF pairs = <<>> THEN posting
  ELSE ParsePostings((ParseInt(Head(pairs)[1]) :> Head(pairs)[2]) @@ posting,
                     Tail(pairs))

\* obj.index[current_term][int(doc_id)] = int(tf) for every match
StorePostings(got, current_term, pairs) ==
  (current_term :> ParsePostings(got.value, pairs)) @@ got.dict

\* the body of the line loop of load_index_from_txt for one line; st holds
\* obj, current_term ("" while None) and section.  A header line carries its
\* number in n, and in term the text found in its place when that is not a
\* number: int() and float() raise ValueError on it.
ParseLine(st, line) ==
  IF line.kind \in {"Total Documents:", "Average Document Length:"}
       /\ line.term # ""
  THEN [st EXCEPT !.err = "ValueError"]
  ELSE IF line.kind = "Total Documents:"
  THEN [st EXCEPT !.obj.num_docs = line.n]
  ELSE IF line.kind = "Average Document Length:"
  THEN [st EXCEPT !.obj.avg_doc_length = Rat(line.n, 100)]
  ELSE IF line.kind = "INVERTED INDEX:"
  THEN [st EXCEPT !.section = "index"]
  ELSE IF line.kind = "DOCUMENT LENGTHS:"
  THEN [st EXCEPT !.section = "doc_lengths"]
  ELSE IF line.kind = "TERM:"
  THEN [st EXCEPT !.current_term = line.term,
                  !.obj.index = (line.term :> EmptyMap) @@ st.obj.index]
  ELSE IF line.kind = "Postings:" /\ st.current_term # ""
  THEN [st EXCEPT !.obj.index =
          StorePostings(GetItem(st.obj.index, st.current_term),
                        st.current_term, line.pairs)]
  ELSE IF st.section = "doc_lengths" /\ line.kind = "Doc"
  THEN [st EXCEPT !.obj.doc_lengths =
          (ParseInt(line.pairs[1]) :> line.n) @@ st.obj.doc_lengths]
  ELSE st

\* for line in f: the lines in order, the first half and then the rest; the
\* loop ends at the line that raises
RECURSIVE ParseLines(_, _)
RECURSIVE ParseRest(_, _)
ParseLines(st, lines) ==
  IF lines = <<>> THEN st
  ELSE IF Len(lines) = 1 THEN ParseLine(st, lines[1])
  ELSE ParseRest(ParseLines(st, SubSeq(lines, 1, Len(lines) \div 2)),
                 SubSeq(lines, Len(lines) \div 2 + 1, Len(lines)))
ParseRest(st, lines) ==
  IF st.err # "none" THEN st ELSE ParseLines(st, lines)

ParseStart ==
  [obj |-> NewIndex, current_term |-> "", section |-> "", err |-> "none"]

\* InvertedIndex.load_index_from_txt: the object it builds, and the
\* exception it ends with or "none"
load_index_from_txt(lines) == ParseLines(ParseStart, lines).obj
load_index_from_txt_raises(lines) == ParseLines(ParseStart, lines).err

\* 3. JSON.  json.dump of a dictionary: every key becomes a string
JsonObject(d) ==
  [s \in {JsonKey(k) : k \in DOMAIN d} |->
     d[CHOOSE k \in DOMAIN d : JsonKey(k) = s]]

save_json(self) ==
  [metadata |-> [num_docs |-> self.num_docs,
                 num_unique_terms |-> Cardinality(DOMAIN self.index),
                 avg_doc_length |-> self.avg_doc_length],
   index |-> [t \in DOMAIN self.index |-> JsonObject(self.index[t])],
   doc_lengths |-> JsonObject(self.doc_lengths)]

\* obj.doc_lengths[int(key)] = obj.doc_lengths.pop(key) for the keys in
\* `converted`
CoerceKeys(doc_lengths, converted) ==
  LET kept == DOMAIN doc_lengths \ converted
  IN [k \in {ParseInt(KeyText(x)) : x \in converted} \cup kept |->
        IF k \in kept THEN doc_lengths[k]
        ELSE doc_lengths[CHOOSE x \in converted : ParseInt(KeyText(x)) = k]]

\* json_data['metadata'], json_data['index'], json_data['doc_lengths']: a
\* file that lacks one of them raises KeyError
JsonKeys == {"metadata", "index", "doc_lengths"}
JsonLengths(json_data) ==
  IF "doc_lengths" \in DOMAIN json_data THEN json_data.doc_lengths ELSE EmptyMap

\* InvertedIndex.load_index_from_json.  The loop over obj.doc_lengths changes
\* the dictionary it iterates over, which Python leaves to the interpreter:
\* the loop converts the keys in `converted`, the first key among them, and
\* then stops, with a RuntimeError ("dictionary keys changed during
\* iteration") when `raised`.  CPython 3.11 converts the only key of a
\* one-entry dictionary and returns; on two to five entries it skips the
\* second key, converts the others and raises.
load_index_from_json(json_data, converted, raised) ==
  IF JsonKeys \ DOMAIN json_data # {} THEN [err |-> "KeyError", obj |-> NewIndex]
  ELSE IF raised THEN [err |-> "RuntimeError", obj |-> NewIndex]
  ELSE [err |-> "none",
        obj |-> [index |-> json_data.index,
                 doc_lengths |-> CoerceKeys(json_data.doc_lengths, converted),
                 num_docs |-> json_data.metadata.num_docs,
                 avg_doc_length |-> json_data.metadata.avg_doc_length]]

\* the outcomes of that loop on the dictionary doc_lengths
JsonLoopOutcomes(doc_lengths) ==
  IF DOMAIN doc_lengths = {} THEN {<<{}, FALSE>>}
  ELSE LET first == SortedKeys(DOMAIN doc_lengths)[1]
       IN {c \in SUBSET DOMAIN doc_lengths : first \in c} \X BOOLEAN

\* ------------------------------------------------------------- the program
VARIABLES
  documents,      \* the corpus file: the list of documents
  idx,            \* the InvertedIndex main() builds
  files,          \* the three files save_index wrote, or "none"
  loaded,         \* the last load: its format, its error, the object returned
  call,           \* the last query operation: its name, arguments and result
  readers,        \* the concurrent readers of idx: each one's operation in progress
  pc              \* "fresh", "built", "saved", "loaded"

vars == <<documents, idx, files, loaded, call, readers, pc>>

NoCall ==
  [op |-> "none", target |-> "none", algorithm |-> "none",
   query_tokens |-> <<>>, top_k |-> 0,
   err |-> "none", results |-> <<>>, records |-> <<>>]
NoLoad == [format |-> "none", err |-> "none", obj |-> NewIndex]

\* a corpus: documents with unique integer ids, here in ascending id order
CorpusOf(ids, tokens) ==
  LET s == SetToSortedSeq(ids)
  IN [i \in DOMAIN s |-> [id |-> s[i], tokens |-> tokens[s[i]]]]

\* the corpora of at most max_docs documents of at most max_tokens tokens
Corpora(max_docs, max_tokens) ==
  UNION { {CorpusOf(ids, tokens) : tokens \in [ids -> TokenSeqs(max_tokens)]} :
          ids \in SUBSET (0 .. (max_docs - 1)) }

InitWith(corpora) ==
  /\ documents \in corpora
  /\ readers = <<>>
  /\ idx = NewIndex
  /\ files = "none"
  /\ loaded = NoLoad
  /\ call = NoCall
  /\ pc = "fresh"

Init == InitWith(Corpora(MaxDocs, MaxTokens))
InitCodec == InitWith(Corpora(MaxCodecDocs, MaxCodecTokens))
InitEngine == InitWith(Corpora(MaxEngineDocs, MaxCodecTokens))

\* indexer.build_index(json_file) in main()
Build ==
  /\ pc = "fresh"
  /\ idx' = build_index(idx, documents)
  /\ pc' = "built"
  /\ UNCHANGED <<documents, files, loaded, call, readers>>

\* indexer.save_index(pkl_file, txt_file, json_file) in main()
Save ==
  /\ pc = "built"
  /\ call = NoCall
  /\ files' = [pkl |-> save_pickle(idx), txt |-> save_text(idx),
               json |-> save_json(idx)]
  /\ pc' = "saved"
  /\ call' = NoCall
  /\ UNCHANGED <<documents, idx, loaded, readers>>

\* the index files are on disk, as written or damaged since
Stored == pc \in {"saved", "corrupt"}

\* SearchEngine.__init__ with file_type 'pkl': InvertedIndex.load_index
LoadPickle ==
  /\ Stored
  /\ loaded' = [format |-> "pkl", err |-> "none", obj |-> load_index(files.pkl)]
  /\ pc' = "loaded"
  /\ call' = NoCall
  /\ UNCHANGED <<documents, idx, files, readers>>

\* SearchEngine.__init__ with file_type 'txt'
LoadText ==
  /\ Stored
  /\ loaded' = [format |-> "txt", err |-> load_index_from_txt_raises(files.txt),
                obj |-> load_index_from_txt(files.txt)]
  /\ pc' = "loaded"
  /\ call' = NoCall
  /\ UNCHANGED <<documents, idx, files, readers>>

\* SearchEngine.__init__ with file_type 'json'
LoadJson ==
  /\ Stored
  /\ \E o \in JsonLoopOutcomes(JsonLengths(files.json)) :
       \E r \in {load_index_from_json(files.json, o[1], o[2])} :
          loaded' = [format |-> "json", err |-> r.err, obj |-> r.obj]
  /\ pc' = "loaded"
  /\ call' = NoCall
  /\ UNCHANGED <<documents, idx, files, readers>>

\* a direct call of InvertedIndex.search / search_tfidf on the built index
IndexSearch(algorithm) ==
  /\ pc = "built"
  /\ call = NoCall
  /\ \E query_tokens \in Queries, top_k \in TopKs :
     \E order \in Orders(candidate_docs(idx, query_tokens)) :
       \E r \in {search(idx, algorithm, query_tokens, top_k, order)} :
          /\ idx' = r.self
          /\ call' = [op |-> "search", target |-> "built",
                      algorithm |-> algorithm, query_tokens |-> query_tokens,
                      top_k |-> top_k, err |-> r.err,
                      results |-> r.value, records |-> <<>>]
  /\ UNCHANGED <<documents, files, loaded, readers, pc>>

Search == IndexSearch("bm25")
SearchTfidf == IndexSearch("tfidf")

\* SearchEngine.search_bm25 / search_tfidf on the engine whose index is the
\* loaded object and whose corpus is the corpus file
EngineSearch(algorithm) ==
  /\ pc = "loaded"
  /\ loaded.err = "none"
  /\ call = NoCall
  /\ \E query_tokens \in Queries, top_k \in TopKs :
     \E order \in Orders(candidate_docs(loaded.obj, query_tokens)) :
       \E r \in {engine_search(loaded.obj, documents, algorithm,
                                query_tokens, top_k, order)} :
          /\ loaded' = [loaded EXCEPT !.obj = r.self]
          /\ call' = [op |-> "engine_search", target |-> "loaded",
                      algorithm |-> algorithm, query_tokens |-> query_tokens,
                      top_k |-> top_k, err |-> r.err,
                      results |-> r.results, records |-> r.value]
  /\ UNCHANGED <<documents, idx, files, readers, pc>>

EngineSearchBm25 == EngineSearch("bm25")
EngineSearchTfidf == EngineSearch("tfidf")

\* the indexer: a build and direct searches on the built index
Next ==
  \/ Build
  \/ Search
  \/ SearchTfidf

Spec == Init /\ [][Next]_vars

\* building, saving and loading, on larger corpora
NextCodec ==
  \/ Build
  \/ Save
  \/ LoadPickle
  \/ LoadText
  \/ LoadJson

SpecCodec == InitCodec /\ [][NextCodec]_vars

\* the search engine: build, save, load in one of the formats, query
NextEngine ==
  \/ Build
  \/ Save
  \/ LoadPickle
  \/ LoadText
  \/ LoadJson
  \/ EngineSearchBm25
  \/ EngineSearchTfidf

SpecEngine == InitEngine /\ [][NextEngine]_vars

\* ------------------------------------------------------------- scoring
\* calculate_bm25_score and calculate_tfidf_score called on the built index
\* and on the index a loader returned, and searches on the built index.
\* a corpus of one document with tokens followed by MaxPad empty documents
SparseCorpus ==
  [i \in 1 .. (MaxPad + 1) |->
     [id |-> i - 1, tokens |-> IF i = 1 THEN <<"a">> ELSE <<>>]]

\* doc0 = [a, a, b], doc1 = [b, c], doc2 = [a, c, c]
ExampleCorpus ==
  << [id |-> 0, tokens |-> <<"a", "a", "b">>],
     [id |-> 1, tokens |-> <<"b", "c">>],
     [id |-> 2, tokens |-> <<"a", "c", "c">>] >>

ScoreQueries == {<<>>, <<"a">>, <<"z", "a">>, <<"b", "a">>, <<"c">>}
ScoreDocIds == {IntKey(0), IntKey(1), IntKey(2), StrKey(0), IntKey(MaxPad + 1)}

InitScoring ==
  InitWith(Corpora(MaxReaderDocs, MaxCodecTokens)
             \cup {SparseCorpus, ExampleCorpus})

\* the outcomes of the JSON loader are enumerated for the small corpora
LoadJsonSmall ==
  /\ Len(documents) <= MaxCodecDocs
  /\ LoadJson

\* one call of a scoring method on the object obj
ScoreCall(target, obj, algorithm) ==
  /\ call = NoCall
  /\ \E query_tokens \in ScoreQueries, doc_id \in ScoreDocIds :
     \E r \in {ScoreOf(obj, algorithm, query_tokens, doc_id)} :
       call' = [NoCall EXCEPT
                  !.op = "score", !.target = target, !.algorithm = algorithm,
                  !.query_tokens = query_tokens, !.err = r.err,
                  !.results = <<<<doc_id, r.v>>>>]

ScoreBuilt(algorithm) ==
  /\ pc = "built"
  /\ ScoreCall("built", idx, algorithm)
  /\ UNCHANGED <<documents, idx, files, loaded, readers, pc>>

ScoreLoaded(algorithm) ==
  /\ pc = "loaded" /\ loaded.err = "none"
  /\ ScoreCall("loaded", loaded.obj, algorithm)
  /\ UNCHANGED <<documents, idx, files, loaded, readers, pc>>

CalculateBm25ScoreBuilt == ScoreBuilt("bm25")
CalculateTfidfScoreBuilt == ScoreBuilt("tfidf")
CalculateBm25ScoreLoaded == ScoreLoaded("bm25")
CalculateTfidfScoreLoaded == ScoreLoaded("tfidf")

NextScoring ==
  \/ Build
  \/ Save
  \/ LoadPickle
  \/ LoadText
  \/ LoadJsonSmall
  \/ CalculateBm25ScoreBuilt
  \/ CalculateTfidfScoreBuilt
  \/ CalculateBm25ScoreLoaded
  \/ CalculateTfidfScoreLoaded
  \/ Search
  \/ SearchTfidf

SpecScoring == InitScoring /\ [][NextScoring]_vars

\* ------------------------------------------------------------- format tags
\* SearchEngine(index_file, corpus_file, file_type): index_file is one of the
\* three files save_index wrote, file_type any string.
FileTypes == {"pkl", "txt", "json", "xml", "TXT"}
IndexFiles == {"pkl", "txt", "json"}

\* the if / elif / else of SearchEngine.__init__: the loader it calls
LoaderFor(file_type) ==
  IF file_type = "txt" THEN "txt"
  ELSE IF file_type = "json" THEN "json"
  ELSE "pkl"

Failed(loader, err) == [format |-> loader, err |-> err, obj |-> NewIndex]

\* InvertedIndex.load_index on index_file: pickle.load rejects a text file
LoadPickleFile(index_file) ==
  IF index_file = "pkl"
  THEN {[format |-> "pkl", err |-> "none", obj |-> load_index(files.pkl)]}
  ELSE {Failed("pkl", "UnpicklingError")}

\* load_index_from_txt on index_file: the pickle file is not UTF-8 text, and
\* no line of the JSON file is one the line loop recognises
LoadTextFile(index_file) ==
  IF index_file = "txt"
  THEN {[format |-> "txt", err |-> load_index_from_txt_raises(files.txt),
         obj |-> load_index_from_txt(files.txt)]}
  ELSE IF index_file = "json"
  THEN {[format |-> "txt", err |-> "none", obj |-> load_index_from_txt(<<>>)]}
  ELSE {Failed("txt", "UnicodeDecodeError")}

\* load_index_from_json on index_file
JsonResult(r) == [format |-> "json", err |-> r.err, obj |-> r.obj]
LoadJsonFile(index_file) ==
  IF index_file = "json"
  THEN {JsonResult(load_index_from_json(files.json, o[1], o[2])) :
          o \in JsonLoopOutcomes(JsonLengths(files.json))}
  ELSE IF index_file = "txt" THEN {Failed("json", "JSONDecodeError")}
  ELSE {Failed("json", "UnicodeDecodeError")}

LoadWith(loader, index_file) ==
  IF loader = "txt" THEN LoadTextFile(index_file)
  ELSE IF loader = "json" THEN LoadJsonFile(index_file)
  ELSE LoadPickleFile(index_file)

\* SearchEngine.__init__
NewSearchEngine ==
  /\ pc = "saved"
  /\ \E file_type \in FileTypes, index_file \in IndexFiles :
       /\ loaded' \in LoadWith(LoaderFor(file_type), index_file)
       /\ call' = [NoCall EXCEPT !.op = "SearchEngine", !.target = file_type]
  /\ pc' = "loaded"
  /\ UNCHANGED <<documents, idx, files, readers>>

NextFormats ==
  \/ Build
  \/ Save
  \/ NewSearchEngine

SpecFormats == InitEngine /\ [][NextFormats]_vars

\* ------------------------------------------------------------- damaged files
\* The saved text or JSON file loses a section or its tail before it is
\* loaded.
HeaderLines == {"Total Documents:", "Average Document Length:"}
IndexLines == {"INVERTED INDEX:", "TERM:", "Document Frequency:", "Postings:"}
LengthLines == {"DOCUMENT LENGTHS:", "Doc"}
Sections == {HeaderLines, IndexLines, LengthLines}

DropLines(lines, kinds) == SelectSeq(lines, LAMBDA l : l.kind \notin kinds)
DropKey(json_data, key) ==
  [k \in DOMAIN json_data \ {key} |-> json_data[k]]

InitCorrupt == InitWith(Corpora(MaxBuildDocs, MaxCodecTokens))

\* the text file without the lines of one section
DropTextSection ==
  /\ pc = "saved"
  /\ \E kinds \in Sections :
       files' = [files EXCEPT !.txt = DropLines(@, kinds)]
  /\ pc' = "corrupt"
  /\ UNCHANGED <<documents, idx, loaded, call, readers>>

\* the text file cut short
TruncateText ==
  /\ pc = "saved"
  /\ \E n \in 0 .. (Len(files.txt) - 1) :
       files' = [files EXCEPT !.txt = SubSeq(@, 1, n)]
  /\ pc' = "corrupt"
  /\ UNCHANGED <<documents, idx, loaded, call, readers>>

\* a header line of the text file with text in the place of its number
Garble(lines, kind) ==
  [i \in DOMAIN lines |->
     IF lines[i].kind = kind THEN [lines[i] EXCEPT !.term = "?"] ELSE lines[i]]

GarbleHeader ==
  /\ pc = "saved"
  /\ \E kind \in HeaderLines :
       files' = [files EXCEPT !.txt = Garble(@, kind)]
  /\ pc' = "corrupt"
  /\ UNCHANGED <<documents, idx, loaded, call, readers>>

\* the JSON file without one of its top-level keys
DropJsonKey ==
  /\ pc = "saved"
  /\ \E key \in JsonKeys :
       files' = [files EXCEPT !.json = DropKey(@, key)]
  /\ pc' = "corrupt"
  /\ UNCHANGED <<documents, idx, loaded, call, readers>>

NextCorrupt ==
  \/ Build
  \/ Save
  \/ DropTextSection
  \/ TruncateText
  \/ GarbleHeader
  \/ DropJsonKey
  \/ LoadText
  \/ LoadJson

SpecCorrupt == InitCorrupt /\ [][NextCorrupt]_vars

\* ------------------------------------------------------------- rebuilds
\* build_index called on an InvertedIndex, and called again on the same
\* object, with corpus files that may hold a document lacking a key.
\* the corpus with the key `key` left out of its i-th document
WithoutKey(corpus, i, key) ==
  [corpus EXCEPT ![i] = [k \in DOMAIN corpus[i] \ {key} |-> corpus[i][k]]]

Damaged(corpora) ==
  UNION { {WithoutKey(c, i, key) : i \in DOMAIN c, key \in {"id", "tokens"}} :
          c \in corpora }

BuildCorpora == Corpora(MaxBuildDocs, MaxCodecTokens)
RebuildCorpora == Corpora(MaxBuildDocs - 1, MaxCodecTokens)

InitBuild ==
  /\ documents = <<>>
  /\ readers = <<>>
  /\ idx = NewIndex
  /\ files = "none"
  /\ loaded = NoLoad
  /\ call = NoCall
  /\ pc = "fresh"

\* indexer.build_index(json_file) on the corpus file holding docs
BuildIndexOn(docs, done) ==
  /\ documents' = docs
  /\ idx' = build_index(idx, docs)
  /\ call' = [NoCall EXCEPT !.op = "build_index", !.target = pc,
                            !.err = build_index_raises(idx, docs)]
  /\ pc' = IF build_index_raises(idx, docs) = "none" THEN done ELSE "failed"
  /\ UNCHANGED <<files, loaded, readers>>

BuildIndex ==
  /\ pc = "fresh"
  /\ \E docs \in BuildCorpora \cup Damaged(BuildCorpora) :
       BuildIndexOn(docs, "built")

\* build_index called again on the object that holds a built index
Rebuild ==
  /\ pc = "built"
  /\ \E docs \in RebuildCorpora \cup Damaged(RebuildCorpora) :
       BuildIndexOn(docs, "rebuilt")

NextBuild ==
  \/ BuildIndex
  \/ Rebuild

SpecBuild == InitBuild /\ [][NextBuild]_vars

\* ------------------------------------------------------------- readers
\* Two threads query the built index idx at the same time.  A getter is one
\* step; a search is a step for every query token of its first loop, a step
\* for every candidate of its second loop and a step for the sort and cut.
\* Every step reads idx as it is at that moment and leaves in idx what its
\* dictionary accesses leave.
Readers == {"r1", "r2"}
ReaderTerms == {"a", "z"}
ReaderDocIds == {IntKey(0), IntKey(MaxReaderDocs)}
ReaderQueries == {<<"a">>, <<"z", "b">>}
\* top_k: int = 10
DefaultTopK == 10

Idle ==
  [op |-> "none", phase |-> "idle", algorithm |-> "none", term |-> "",
   doc_id |-> IntKey(0), query_tokens |-> <<>>, todo |-> <<>>,
   candidates |-> {}, order |-> <<>>, left |-> <<>>, scores |-> <<>>,
   err |-> "none", result |-> <<>>]

InitReaders ==
  /\ documents \in Corpora(MaxReaderDocs, MaxCodecTokens)
  /\ readers = [r \in Readers |-> Idle]
  /\ idx = NewIndex
  /\ files = "none"
  /\ loaded = NoLoad
  /\ call = NoCall
  /\ pc = "fresh"

\* the object after the reads of a scoring loop over query_tokens
RECURSIVE ReadTerms(_, _)
ReadTerms(self, query_tokens) ==
  IF query_tokens = <<>> THEN self
  ELSE IF Contains(self.index, Head(query_tokens))
  THEN ReadTerms(AfterGetItem(self, DictGet(self.index, Head(query_tokens))),
                 Tail(query_tokens))
  ELSE ReadTerms(self, Tail(query_tokens))

\* a getter returns: the reader holds the result, idx what the reads left
Returns(r, op, term, doc_id, query_tokens, self, result) ==
  /\ pc = "built"
  /\ readers[r].phase = "idle"
  /\ idx' = self
  /\ readers' = [readers EXCEPT ![r] =
       [Idle EXCEPT !.op = op, !.phase = "done", !.term = term,
                    !.doc_id = doc_id, !.query_tokens = query_tokens,
                    !.err = result.err, !.result = result.v]]
  /\ UNCHANGED <<documents, files, loaded, call, pc>>

Value(v) == [err |-> "none", v |-> v]

GetDocumentFrequency(r) ==
  \E term \in ReaderTerms :
    Returns(r, "get_document_frequency", term, IntKey(0), <<>>,
            AfterGetItem(idx, DictGet(idx.index, term)),
            Value(get_document_frequency(idx, term)))

GetTermFrequency(r) ==
  \E term \in ReaderTerms, doc_id \in ReaderDocIds :
    Returns(r, "get_term_frequency", term, doc_id, <<>>,
            AfterGetItem(idx, DictGet(idx.index, term)),
            Value(get_term_frequency(idx, term, doc_id)))

GetPostingList(r) ==
  \E term \in ReaderTerms :
    Returns(r, "get_posting_list", term, IntKey(0), <<>>,
            AfterGetItem(idx, DictGet(idx.index, term)),
            Value(get_posting_list(idx, term)))

CalculateIdf(r) ==
  \E term \in ReaderTerms :
    Returns(r, "calculate_idf", term, IntKey(0), <<>>,
            AfterGetItem(idx, DictGet(idx.index, term)),
            calculate_idf(idx, term))

CalculateBm25Score(r) ==
  \E query_tokens \in ReaderQueries, doc_id \in ReaderDocIds :
    Returns(r, "calculate_bm25_score", "", doc_id, query_tokens,
            ReadTerms(idx, query_tokens),
            calculate_bm25_score(idx, query_tokens, doc_id, DefaultK1, DefaultB))

CalculateTfidfScore(r) ==
  \E query_tokens \in ReaderQueries, doc_id \in ReaderDocIds :
    Returns(r, "calculate_tfidf_score", "", doc_id, query_tokens,
            ReadTerms(idx, query_tokens),
            calculate_tfidf_score(idx, query_tokens, doc_id))

\* search / search_tfidf is called: candidate_docs = set()
StartSearch(r) ==
  /\ pc = "built"
  /\ readers[r].phase = "idle"
  /\ \E algorithm \in {"bm25", "tfidf"}, query_tokens \in ReaderQueries :
       readers' = [readers EXCEPT ![r] =
         [Idle EXCEPT !.op = "search", !.phase = "collect",
                      !.algorithm = algorithm,
                      !.query_tokens = query_tokens, !.todo = query_tokens]]
  /\ UNCHANGED <<documents, idx, files, loaded, call, pc>>

\* one iteration of the first loop
Collected(r, c) ==
  /\ idx' = c.self
  /\ readers' = [readers EXCEPT ![r].todo = Tail(@),
                                ![r].candidates = c.candidate_docs]

CollectStep(r) ==
  /\ readers[r].phase = "collect"
  /\ readers[r].todo # <<>>
  /\ Collected(r, CollectCandidates(idx, <<Head(readers[r].todo)>>,
                                    readers[r].candidates))
  /\ UNCHANGED <<documents, files, loaded, call, pc>>

\* the first loop is over: the second one enumerates the candidate set
StartScoring(r) ==
  /\ readers[r].phase = "collect"
  /\ readers[r].todo = <<>>
  /\ \E order \in Orders(readers[r].candidates) :
       readers' = [readers EXCEPT ![r].phase = "score", ![r].order = order,
                                  ![r].left = order]
  /\ UNCHANGED <<documents, idx, files, loaded, call, pc>>

\* one iteration of the second loop
Scored(r, one) ==
  readers' = [readers EXCEPT ![r].left = Tail(@),
                             ![r].scores = @ \o one.v,
                             ![r].err = IF @ # "none" THEN @ ELSE one.err]

ScoreStep(r) ==
  /\ readers[r].phase = "score"
  /\ readers[r].left # <<>>
  /\ idx' = ReadTerms(idx, readers[r].query_tokens)
  /\ Scored(r, AppendScore(Head(readers[r].left),
                           ScoreOf(idx, readers[r].algorithm,
                                   readers[r].query_tokens, Head(readers[r].left)),
                           Value(<<>>)))
  /\ UNCHANGED <<documents, files, loaded, call, pc>>

\* scores.sort(...); return scores[:top_k]
FinishSearch(r) ==
  /\ readers[r].phase = "score"
  /\ readers[r].left = <<>>
  /\ readers' = [readers EXCEPT
       ![r].phase = "done",
       ![r].result = RankScores(idx, [err |-> readers[r].err,
                                      v |-> readers[r].scores],
                                DefaultTopK).value]
  /\ UNCHANGED <<documents, idx, files, loaded, call, pc>>

\* the caller takes the result; the thread is free for the next call
Finish(r) ==
  /\ readers[r].phase = "done"
  /\ readers' = [readers EXCEPT ![r] = Idle]
  /\ UNCHANGED <<documents, idx, files, loaded, call, pc>>

NextReaders ==
  \/ Build
  \/ \E r \in Readers : GetDocumentFrequency(r)
  \/ \E r \in Readers : GetTermFrequency(r)
  \/ \E r \in Readers : GetPostingList(r)
  \/ \E r \in Readers : CalculateIdf(r)
  \/ \E r \in Readers : CalculateBm25Score(r)
  \/ \E r \in Readers : CalculateTfidfScore(r)
  \/ \E r \in Readers : StartSearch(r)
  \/ \E r \in Readers : CollectStep(r)
  \/ \E r \in Readers : StartScoring(r)
  \/ \E r \in Readers : ScoreStep(r)
  \/ \E r \in Readers : FinishSearch(r)
  \/ \E r \in Readers : Finish(r)

SpecReaders == InitReaders /\ [][NextReaders]_vars

\* ------------------------------------------------------------- analytics
\* SearchEngine.search_both: search_tfidf, then search_bm25
BothResult(tfidf, bm25) ==
  [self |-> bm25.self,
   err |-> IF tfidf.err # "none" THEN tfidf.err ELSE bm25.err,
   tfidf |-> tfidf.value, bm25 |-> bm25.value]

SearchBm25After(tfidf, corpus, query_tokens, top_k, order) ==
  IF tfidf.err # "none" THEN BothResult(tfidf, tfidf)
  ELSE BothResult(tfidf, engine_search(tfidf.self, corpus, "bm25",
                                       query_tokens, top_k, order))

search_both(index, corpus, query_tokens, top_k, order) ==
  SearchBm25After(engine_search(index, corpus, "tfidf", query_tokens,
                                top_k, order),
                  corpus, query_tokens, top_k, order)

\* [r['doc_id'] for r in results]
IdsOf(records) == [i \in DOMAIN records |-> records[i].doc_id]

\* set(ids)
IdSet(ids) == {ids[i] : i \in DOMAIN ids}

\* {doc_id: i for i, doc_id in enumerate(ids)}[doc_id]
RankOf(ids, doc_id) ==
  (CHOOSE i \in DOMAIN ids :
     ids[i] = doc_id /\ \A j \in DOMAIN ids : j > i => ids[j] # doc_id) - 1

\* the rank spearmanr gives an observation among the others; the positions
\* of one list differ, so there are no ties
RankAmong(ids, common, doc_id) ==
  Cardinality({d \in common : RankOf(ids, d) < RankOf(ids, doc_id)}) + 1

RECURSIVE SumSquaredDiffs(_, _, _, _)
SumSquaredDiffs(tfidf_ids, bm25_ids, common, rest) ==
  IF rest = {} THEN 0
  ELSE LET d == CHOOSE x \in rest : TRUE
           diff == RankAmong(tfidf_ids, common, d) - RankAmong(bm25_ids, common, d)
       IN diff * diff + SumSquaredDiffs(tfidf_ids, bm25_ids, common, rest \ {d})

\* a correlation: a number, or nan
Number(v) == [nan |-> FALSE, v |-> v]
NaN == [nan |-> TRUE, v |-> Rat(0, 1)]

\* 1 - 6 sum(d^2) / (n (n^2 - 1)), the exact value of the coefficient
SpearmanRho(n, sum_d2) ==
  Number(Rat(n * (n * n - 1) - 6 * sum_d2, n * (n * n - 1)))

\* scipy.stats.spearmanr on the positions of the common documents in the
\* two lists: nan for fewer than two observations
spearmanr(tfidf_ids, bm25_ids, common) ==
  IF Cardinality(common) < 2 THEN NaN
  ELSE SpearmanRho(Cardinality(common),
                   SumSquaredDiffs(tfidf_ids, bm25_ids, common, common))

\* the share of one more than the documents retrieved rather than of top_k
Percentage_of_retrieved(count, top_k) == Rat(count * 100, count + 1)

\* len(overlap) / top_k * 100
Percentage(count, top_k) == Rat(count * 100, top_k)

\* the statistics calculate_ranking_statistics computes from the two lists
\* of document ids; called records that spearmanr was invoked
RankingStatistics(tfidf_ids, bm25_ids, overlap, top_k) ==
  [overlap_count |-> Cardinality(overlap),
   overlap_percentage |-> Percentage(Cardinality(overlap), top_k),
   tfidf_unique |-> Cardinality(IdSet(tfidf_ids) \ IdSet(bm25_ids)),
   bm25_unique |-> Cardinality(IdSet(bm25_ids) \ IdSet(tfidf_ids)),
   rank_correlation |-> IF overlap # {}
                        THEN spearmanr(tfidf_ids, bm25_ids, overlap)
                        ELSE Number(Rat(0, 1)),
   total_retrieved |-> top_k,
   called |-> overlap # {}]

ranking_statistics(tfidf_ids, bm25_ids, top_k) ==
  RankingStatistics(tfidf_ids, bm25_ids,
                    IdSet(tfidf_ids) \cap IdSet(bm25_ids), top_k)

\* what compare_algorithms prints of the ranking: the correlation only when
\* the two lists share at least two documents
NoStatistics ==
  [overlap_count |-> 0, overlap_percentage |-> Rat(0, 1), tfidf_unique |-> 0,
   bm25_unique |-> 0, rank_correlation |-> Number(Rat(0, 1)),
   total_retrieved |-> 0, called |-> FALSE]

compared_statistics(tfidf_ids, bm25_ids, top_k) ==
  IF Cardinality(IdSet(tfidf_ids) \cap IdSet(bm25_ids)) >= 2
  THEN ranking_statistics(tfidf_ids, bm25_ids, top_k)
  ELSE [NoStatistics EXCEPT
          !.overlap_count = Cardinality(IdSet(tfidf_ids) \cap IdSet(bm25_ids)),
          !.overlap_percentage =
             Percentage(Cardinality(IdSet(tfidf_ids) \cap IdSet(bm25_ids)), top_k),
          !.tfidf_unique = Cardinality(IdSet(tfidf_ids) \ IdSet(bm25_ids)),
          !.bm25_unique = Cardinality(IdSet(bm25_ids) \ IdSet(tfidf_ids)),
          !.total_retrieved = top_k]

\* a corpus on which the two algorithms rank the same documents differently
RankedCorpus ==
  << [id |-> 0, tokens |-> <<"a">>], [id |-> 1, tokens |-> <<"b">>],
     [id |-> 2, tokens |-> <<"a", "b">>] >>

InitAnalytics ==
  InitWith(Corpora(MaxEngineDocs, MaxCodecTokens) \cup {RankedCorpus})

AnalyticsCall(op, both, query_tokens, top_k, statistics) ==
  /\ loaded' = [loaded EXCEPT !.obj = both.self]
  /\ call' = [op |-> op, target |-> "loaded", algorithm |-> "both",
              query_tokens |-> query_tokens, top_k |-> top_k,
              err |-> both.err,
              results |-> IF both.err = "none" THEN statistics ELSE NoStatistics,
              records |-> [tfidf |-> IdsOf(both.tfidf),
                           bm25 |-> IdsOf(both.bm25)]]

\* the engine is ready and idle; the query, top_k and the enumeration order
\* of the candidate set are the inputs of one analytics call
AnalyticsInputs ==
  IF pc = "loaded" /\ loaded.err = "none" /\ call = NoCall
  THEN Queries \X (1 .. (Len(documents) + 1))
  ELSE {}

\* SearchEngine.calculate_ranking_statistics(query, top_k)
CalculateRankingStatistics ==
  /\ \E in \in AnalyticsInputs :
     \E order \in Orders(candidate_docs(loaded.obj, in[1])) :
     \E both \in {search_both(loaded.obj, documents, in[1], in[2], order)} :
        AnalyticsCall("calculate_ranking_statistics", both, in[1], in[2],
                      ranking_statistics(IdsOf(both.tfidf), IdsOf(both.bm25),
                                         in[2]))
  /\ UNCHANGED <<documents, idx, files, readers, pc>>

\* SearchEngine.compare_algorithms(query, top_k): the overlap of the two
\* lists and, when it has two documents or more, the ranking statistics
CompareAlgorithms ==
  /\ \E in \in AnalyticsInputs :
     \E order \in Orders(candidate_docs(loaded.obj, in[1])) :
     \E both \in {search_both(loaded.obj, documents, in[1], in[2], order)} :
        AnalyticsCall("compare_algorithms", both, in[1], in[2],
                      compared_statistics(IdsOf(both.tfidf), IdsOf(both.bm25),
                                          in[2]))
  /\ UNCHANGED <<documents, idx, files, readers, pc>>

NextAnalytics ==
  \/ Build
  \/ Save
  \/ LoadPickle
  \/ LoadText
  \/ CalculateRankingStatistics
  \/ CompareAlgorithms

SpecAnalytics == InitAnalytics /\ [][NextAnalytics]_vars

\* ------------------------------------------------------------- term frequency
\* an index object in which the term "a" occurs tf times in document 0 and
\* once in others further documents
TermObject(tf, others, num_docs, doc_length, avg) ==
  [index |-> ("a" :> ((IntKey(0) :> tf)
                      @@ [d \in {IntKey(i) : i \in 1 .. others} |-> 1])),
   doc_lengths |-> (IntKey(0) :> doc_length),
   num_docs |-> num_docs,
   avg_doc_length |-> avg]

\* the same object with another term frequency for the term in the document
WithTf(self, term, doc_id, tf) ==
  [self EXCEPT !.index[term][doc_id] = tf]

TermObjects ==
  { TermObject(tf, others, others + 1 + more, doc_length, Rat(an, ad)) :
      tf \in 1 .. MaxTf, others \in 0 .. 1, more \in 0 .. 1,
      doc_length \in 1 .. 3, an \in 1 .. 3, ad \in 1 .. 2 }

\* the parameters k1 > 0 and 0 <= b <= 1 of calculate_bm25_score
K1s == {Rat(1, 2), DefaultK1, Rat(2, 1)}
Bs == {Rat(0, 1), DefaultB, Rat(1, 1)}

InitBm25 ==
  /\ documents = <<>>
  /\ readers = <<>>
  /\ idx \in TermObjects
  /\ files = "none"
  /\ loaded = NoLoad
  /\ call = NoCall
  /\ pc = "built"

\* calculate_bm25_score(['a'], 0, k1, b) on the object
CalculateBm25ScoreWith ==
  /\ call = NoCall
  /\ \E k1 \in K1s, b \in Bs :
     \E r \in {calculate_bm25_score(idx, <<"a">>, IntKey(0), k1, b)} :
       call' = [NoCall EXCEPT
                  !.op = "calculate_bm25_score", !.target = "built",
                  !.algorithm = "bm25", !.query_tokens = <<"a">>,
                  !.err = r.err, !.results = <<<<IntKey(0), r.v>>>>,
                  !.records = [k1 |-> k1, b |-> b]]
  /\ UNCHANGED <<documents, idx, files, loaded, readers, pc>>

NextBm25 == CalculateBm25ScoreWith

SpecBm25 == InitBm25 /\ [][NextBm25]_vars

\* ------------------------------------------------------------- snippets
\* strings are sequences of characters; the marker's character may occur in
\* the content as well
Chars == {"x", "."}
Ellipsis == <<".", ".", ".">>
Contents == UNION {[1 .. n -> Chars] : n \in 0 .. MaxContent}
MaxLengths == 0 .. (MaxContent + 1)

\* a test that also fires for a content of exactly max_length characters
Truncated_atleast(content, max_length) == Len(content) >= max_length

\* `if len(content) > max_length`
Truncated(content, max_length) == Len(content) > max_length

\* SearchEngine._create_snippet(content, query_tokens, max_length)
create_snippet(content, max_length) ==
  IF Truncated(content, max_length)
  THEN Slice(content, max_length) \o Ellipsis
  ELSE Slice(content, max_length)

InitSnippet ==
  /\ documents = <<>>
  /\ readers = <<>>
  /\ idx = NewIndex
  /\ files = "none"
  /\ loaded = NoLoad
  /\ call = NoCall
  /\ pc = "fresh"

\* one call of _create_snippet; the call record keeps the content under
\* query_tokens and max_length under top_k
CreateSnippet ==
  /\ \E content \in Contents, max_length \in MaxLengths :
       call' = [NoCall EXCEPT
                  !.op = "_create_snippet", !.query_tokens = content,
                  !.top_k = max_length,
                  !.results = create_snippet(content, max_length)]
  /\ UNCHANGED <<documents, idx, files, loaded, readers, pc>>

NextSnippet == CreateSnippet

SpecSnippet == InitSnippet /\ [][NextSnippet]_vars

\* ------------------------------------------------------------- properties
RECURSIVE SumTokens(_)
SumTokens(docs) ==
  IF docs = <<>> THEN 0 ELSE Len(Head(docs).tokens) + SumTokens(Tail(docs))

Min(a, b) == IF a < b THEN a ELSE b

Algorithms == {"bm25", "tfidf"}

IntDocKeys == {IntKey(n) : n \in 0 .. MaxCodecDocs}

SameIndex(x, y) ==
  /\ x.index = y.index
  /\ x.doc_lengths = y.doc_lengths
  /\ x.num_docs = y.num_docs

\* the candidates search keeps: those with a strictly positive score
PositiveCandidates(self, algorithm, query_tokens) ==
  {d \in candidate_docs(self, query_tokens) :
     ScoreOf(self, algorithm, query_tokens, d).v > 0}

\* C1: load_index_from_json returns, and the index it returns equals the
\* built index: same
\* term -> posting mapping with integer document ids, same doc_lengths, same
\* num_docs and avg_doc_length, and get_term_frequency(t, d) with an
\* integer d is unchanged.
C1_JsonRoundTrip ==
  (pc = "loaded" /\ loaded.format = "json") =>
    /\ loaded.err = "none"
    /\ SameIndex(loaded.obj, idx)
    /\ RatEq(loaded.obj.avg_doc_length, idx.avg_doc_length)
    /\ \A t \in QueryTerms, d \in IntDocKeys :
         get_term_frequency(loaded.obj, t, d) = get_term_frequency(idx, t, d)

\* C2: the index loaded from the text file has the term -> posting mapping,
\* the doc_lengths and the num_docs of the built index, and its
\* avg_doc_length is the built one rounded to two decimals.
C2_TextRoundTrip ==
  (pc = "loaded" /\ loaded.format = "txt") =>
    /\ loaded.err = "none"
    /\ SameIndex(loaded.obj, idx)
    /\ RatEq(loaded.obj.avg_doc_length, Rat(Round2(idx.avg_doc_length), 100))

C2_Witness ==
  /\ pc = "loaded" /\ loaded.format = "txt"
  /\ \E t \in DOMAIN idx.index : Cardinality(DOMAIN idx.index[t]) >= 2
  /\ ~RatEq(loaded.obj.avg_doc_length, idx.avg_doc_length)

\* C3: the index loaded from the pickle file is the built index, integer
\* keys included, and every search and search_tfidf call returns on it the
\* list it returns on the built index: for every call that can be made on
\* the index just loaded, and for the call the search engine has made.
C3_PickleRoundTrip ==
  (pc = "loaded" /\ loaded.format = "pkl") =>
    /\ loaded.err = "none"
    /\ SameIndex(loaded.obj, idx)
    /\ loaded.obj.avg_doc_length = idx.avg_doc_length
    /\ \A k \in DOMAIN loaded.obj.doc_lengths : k[1] = "int"
    /\ \A t \in DOMAIN loaded.obj.index :
         \A k \in DOMAIN loaded.obj.index[t] : k[1] = "int"
    /\ call = NoCall =>
         \A algorithm \in Algorithms, q \in Queries, top_k \in TopKs :
           \A order \in Orders(candidate_docs(idx, q)) :
             search(loaded.obj, algorithm, q, top_k, order).value
               = search(idx, algorithm, q, top_k, order).value
    /\ call.op = "engine_search" =>
         \E order \in Orders(candidate_docs(idx, call.query_tokens)) :
           call.results = search(idx, call.algorithm, call.query_tokens,
                                 call.top_k, order).value

C3_Witness ==
  /\ pc = "loaded" /\ loaded.format = "pkl"
  /\ call.op = "engine_search"
  /\ Len(call.results) >= 2
  /\ call.results[1][2] > call.results[2][2]

\* C4: after build_index on a fresh InvertedIndex, num_docs is the number of
\* documents and avg_doc_length is the sum of the token counts divided by
\* num_docs, and 0 for the empty corpus.
C4_BuildStatistics ==
  pc # "fresh" =>
    /\ idx.num_docs = Len(documents)
    /\ IF Len(documents) = 0
       THEN RatEq(idx.avg_doc_length, Rat(0, 1))
       ELSE RatEq(idx.avg_doc_length, Rat(SumTokens(documents), Len(documents)))

C4_Witness ==
  /\ pc = "built"
  /\ Len(documents) >= 2
  /\ SumTokens(documents) % Len(documents) # 0

\* C5: a list returned by search or search_tfidf holds only documents with a
\* strictly positive score, each with its score, in non-increasing order of
\* score.
C5_PositiveDescending ==
  call.op = "search" =>
    /\ \A i \in DOMAIN call.results :
         /\ call.results[i][2] > 0
         /\ call.results[i][2] =
              ScoreOf(idx, call.algorithm, call.query_tokens, call.results[i][1]).v
    /\ \A i \in 1 .. (Len(call.results) - 1) :
         call.results[i][2] >= call.results[i + 1][2]

C5_Witness ==
  /\ call.op = "search"
  /\ call.algorithm = "tfidf"
  /\ Len(call.results) >= 2
  /\ call.results[1][2] > call.results[2][2]

\* C6: tied documents of a returned list are in ascending document id order,
\* and a tied document left out by the cut has a larger id than the tied
\* documents returned.
C6_TiesByDocId ==
  call.op = "search" =>
    /\ \A i, j \in DOMAIN call.results :
         (i < j /\ call.results[i][2] = call.results[j][2])
           => call.results[i][1][2] < call.results[j][1][2]
    /\ \A d \in PositiveCandidates(idx, call.algorithm, call.query_tokens) :
         \A i \in DOMAIN call.results :
           ( /\ \A j \in DOMAIN call.results : call.results[j][1] # d
             /\ ScoreOf(idx, call.algorithm, call.query_tokens, d).v
                  = call.results[i][2] )
           => call.results[i][1][2] < d[2]

\* C7: for a positive top_k the returned list has min(top_k, number of
\* candidates with a strictly positive score) entries, all of them distinct
\* such candidates, and no candidate left out has a score greater than a
\* returned one.
C7_TopKCut ==
  (call.op = "search" /\ call.top_k > 0) =>
    /\ Len(call.results) =
         Min(call.top_k,
             Cardinality(PositiveCandidates(idx, call.algorithm, call.query_tokens)))
    /\ \A i, j \in DOMAIN call.results :
         i # j => call.results[i][1] # call.results[j][1]
    /\ \A i \in DOMAIN call.results :
         call.results[i][1] \in
           PositiveCandidates(idx, call.algorithm, call.query_tokens)
    /\ \A d \in PositiveCandidates(idx, call.algorithm, call.query_tokens) :
         (\A j \in DOMAIN call.results : call.results[j][1] # d)
           => \A i \in DOMAIN call.results :
                ScoreOf(idx, call.algorithm, call.query_tokens, d).v
                  <= call.results[i][2]

C7_Witness ==
  /\ call.op = "search"
  /\ call.top_k > 0
  /\ call.top_k <
       Cardinality(PositiveCandidates(idx, call.algorithm, call.query_tokens))
  /\ Len(call.results) = call.top_k

\* no token of the query is a term of the index (the empty query included)
NoTermMatches(self, query_tokens) ==
  \A i \in DOMAIN query_tokens : query_tokens[i] \notin DOMAIN self.index

\* C8: when the query is empty or none of its tokens is a term of the index,
\* search, search_tfidf and the two SearchEngine searches return an empty
\* list and raise nothing.
C8_EmptyOnNoMatch ==
  (pc = "loaded" /\ loaded.err = "none") =>
    /\ \A algorithm \in Algorithms, q \in Queries, top_k \in TopKs :
         NoTermMatches(loaded.obj, q) =>
           /\ search(loaded.obj, algorithm, q, top_k, <<>>).err = "none"
           /\ search(loaded.obj, algorithm, q, top_k, <<>>).value = <<>>
    /\ (call.op = "engine_search" /\ NoTermMatches(loaded.obj, call.query_tokens))
         => (call.err = "none" /\ call.records = <<>> /\ call.results = <<>>)

C8_Witness ==
  /\ call.op = "engine_search"
  /\ call.query_tokens = <<"z">>
  /\ Len(documents) = 0
  /\ call.err = "none" /\ call.records = <<>>

\* the invariants of one index object
WellFormed(self) ==
  /\ \A t \in DOMAIN self.index :
       /\ \A k \in DOMAIN self.index[t] :
            k \in DOMAIN self.doc_lengths /\ self.index[t][k] >= 1
       /\ get_document_frequency(self, t) = Cardinality(DOMAIN self.index[t])

\* C9: in the built index and in an index loaded from a saved file, every
\* document id of a posting is a key of doc_lengths, with the same type, and
\* the document frequency of a term is the number of document ids of its
\* posting, each with a term frequency of at least 1.
C9_WellFormed ==
  /\ pc # "fresh" => WellFormed(idx)
  /\ (pc = "loaded" /\ loaded.err = "none") => WellFormed(loaded.obj)

\* what the operation a reader has finished returns when it runs alone on
\* the index as built
AloneResult(rd, base) ==
  IF rd.op = "get_document_frequency" THEN get_document_frequency(base, rd.term)
  ELSE IF rd.op = "get_term_frequency"
  THEN get_term_frequency(base, rd.term, rd.doc_id)
  ELSE IF rd.op = "get_posting_list" THEN get_posting_list(base, rd.term)
  ELSE IF rd.op = "calculate_idf" THEN calculate_idf(base, rd.term).v
  ELSE IF rd.op = "calculate_bm25_score"
  THEN calculate_bm25_score(base, rd.query_tokens, rd.doc_id,
                            DefaultK1, DefaultB).v
  ELSE IF rd.op = "calculate_tfidf_score"
  THEN calculate_tfidf_score(base, rd.query_tokens, rd.doc_id).v
  ELSE search(base, rd.algorithm, rd.query_tokens, DefaultTopK, rd.order).value

\* C10: whatever queries two readers have run or are running, interleaved in
\* any way, the index is the one build_index made (same terms, same postings,
\* same doc_lengths, num_docs and avg_doc_length), and every finished call
\* has returned what it returns when run alone.
C10_QueriesDoNotMutate ==
  (pc = "built" /\ readers # <<>>) =>
    /\ idx = build_index(NewIndex, documents)
    /\ \A r \in Readers :
         readers[r].phase = "done" =>
           /\ readers[r].err = "none"
           /\ readers[r].result =
                AloneResult(readers[r], build_index(NewIndex, documents))

C10_Witness ==
  /\ pc = "built" /\ readers # <<>>
  /\ readers["r1"].phase = "done" /\ readers["r1"].op = "search"
  /\ readers["r1"].query_tokens = <<"z", "b">>
  /\ readers["r1"].result # <<>>
  /\ readers["r2"].phase = "score"
  /\ readers["r2"].query_tokens = <<"z", "b">>

\* C11: a build_index call that ends with an exception ends with a
\* SchemaError and leaves the InvertedIndex as it was before the call: same
\* index mapping, doc_lengths, num_docs and avg_doc_length.
C11_FailedBuildLeavesNoState ==
  [][(call'.op = "build_index" /\ call'.err # "none")
       => (call'.err = "SchemaError" /\ idx' = idx)]_vars

\* C19: after build_index has run again on an InvertedIndex that held a
\* built index, the index is the one a fresh InvertedIndex gets from the new
\* corpus alone.
C19_RebuildReplaces ==
  pc = "rebuilt" => idx = build_index(NewIndex, documents)

\* a text file lacks a section: a header line or the number in it, the index body down to the
\* block of one of the terms its header counts, or the length body down to
\* the line of one of the documents its header counts
LineKinds(lines) == {lines[i].kind : i \in DOMAIN lines}
CountKind(lines, kind) == Len(SelectSeq(lines, LAMBDA l : l.kind = kind))
TextLacksSection(lines) ==
  \/ \E i \in DOMAIN lines : lines[i].kind \in HeaderLines /\ lines[i].term # ""
  \/ ~(HeaderLines \cup {"Total Unique Terms:", "INVERTED INDEX:",
                         "DOCUMENT LENGTHS:"} \subseteq LineKinds(lines))
  \/ CountKind(lines, "Postings:") #
       lines[CHOOSE i \in DOMAIN lines : lines[i].kind = "Total Unique Terms:"].n
  \/ CountKind(lines, "Doc") #
       lines[CHOOSE i \in DOMAIN lines : lines[i].kind = "Total Documents:"].n

\* C12: loading a text file that lacks a section, or a JSON file that lacks
\* one of its three parts, fails with a CorruptIndexError; no index object
\* is returned.
C12_CorruptFileRejected ==
  /\ (pc = "loaded" /\ loaded.format = "txt" /\ TextLacksSection(files.txt))
       => loaded.err = "CorruptIndexError"
  /\ (pc = "loaded" /\ loaded.format = "json" /\ ~(JsonKeys \subseteq DOMAIN files.json))
       => loaded.err = "CorruptIndexError"

\* C13: a SearchEngine constructed with file_type 'pkl', 'txt' or 'json' has
\* called the loader of that format, and one constructed with any other
\* file_type has failed with an UnsupportedFormatError without calling a
\* loader.
C13_CodecByTagOnly ==
  call.op = "SearchEngine" =>
    IF call.target \in {"pkl", "txt", "json"}
    THEN loaded.format = call.target
    ELSE loaded.err = "UnsupportedFormatError" /\ loaded.format = "none"

\* C14: a call of calculate_bm25_score or calculate_tfidf_score, on the
\* built index or on a loaded one, with any query tokens and document id,
\* raises nothing, and returns 0 when the document length is 0 or unknown.
C14_ScoringNeverFaults ==
  call.op = "score" =>
    /\ call.err = "none"
    /\ (DocLength(IF call.target = "built" THEN idx ELSE loaded.obj,
                  call.results[1][1]) = 0)
         => call.results[1][2] = 0

\* the terms of the index that occur in every document
InEveryDocument(self, term) ==
  term \in DOMAIN self.index
    /\ get_document_frequency(self, term) = self.num_docs

\* C15: in the built index a term that occurs in every document adds
\* exactly 0 to the TF-IDF score of every document, and search_tfidf with a
\* query made only of such terms returns the empty list.
C15_TfidfZeroForUbiquitousTerm ==
  pc = "built" =>
    /\ \A t \in DOMAIN idx.index, d \in DOMAIN idx.doc_lengths :
         (InEveryDocument(idx, t) /\ idx.doc_lengths[d] > 0) =>
           /\ TfidfTerm(idx, t, d, idx.doc_lengths[d]) = [err |-> "none", v |-> 0]
           /\ calculate_tfidf_score(idx, <<t>>, d) = [err |-> "none", v |-> 0]
    /\ ( /\ call.op = "search" /\ call.algorithm = "tfidf"
         /\ \A i \in DOMAIN call.query_tokens :
              InEveryDocument(idx, call.query_tokens[i]) )
         => (call.err = "none" /\ call.results = <<>>)

C15_Witness ==
  /\ pc = "built" /\ idx.num_docs >= 2
  /\ call.op = "search" /\ call.algorithm = "tfidf"
  /\ call.query_tokens = <<"a", "b">>
  /\ InEveryDocument(idx, "a") /\ InEveryDocument(idx, "b")
  /\ call.results = <<>>

\* C16, as stated: for the num_docs of a built index there is a document
\* frequency df with num_docs/2 < df <= num_docs whose BM25 idf is negative.
C16_IdfCanBeNegative ==
  (pc = "built" /\ idx.num_docs >= 1) =>
    \E df \in 1 .. idx.num_docs :
      2 * df > idx.num_docs /\ IdfOf(idx.num_docs, df).v < 0

\* C16, amended: the BM25 idf of every term of a built index is strictly
\* positive, also for a term that occurs in more than half of the documents
\* or in all of them, and no BM25 term contribution is negative.
C16_IdfPositive ==
  pc = "built" =>
    /\ \A df \in 1 .. idx.num_docs :
         IdfOf(idx.num_docs, df).err = "none" /\ IdfOf(idx.num_docs, df).v > 0
    /\ \A t \in DOMAIN idx.index :
         /\ calculate_idf(idx, t).err = "none"
         /\ calculate_idf(idx, t).v > 0
         /\ \A d \in DOMAIN idx.doc_lengths :
              idx.doc_lengths[d] > 0 =>
                Bm25Term(idx, t, d, idx.doc_lengths[d], DefaultK1, DefaultB).v >= 0

C16_Witness ==
  /\ pc = "built" /\ idx.num_docs >= 2
  /\ \E t \in DOMAIN idx.index :
       /\ InEveryDocument(idx, t)
       /\ calculate_idf(idx, t).v > 0
       /\ \E d \in DOMAIN idx.doc_lengths :
            Bm25Term(idx, t, d, idx.doc_lengths[d], DefaultK1, DefaultB).v > 0

\* the document ids of a ranked list, in order
DocIds(results) == [i \in DOMAIN results |-> results[i][1]]

\* C20: for the corpus doc0 = [a, a, b], doc1 = [b, c], doc2 = [a, c, c] the
\* built index has num_docs 3, lengths 3, 2, 3, avg_doc_length 8/3 and
\* document frequency 2 for a, b and c; for the query [a] search and
\* search_tfidf return doc0 then doc2 and not doc1; the TF-IDF score of
\* doc0 is (2/3) ln(3/2), twice that of doc2; the BM25 idf of a is ln 1.6.
C20_WorkedExample ==
  (documents = ExampleCorpus /\ pc = "built") =>
    /\ idx.num_docs = 3
    /\ idx.doc_lengths = (IntKey(0) :> 3) @@ (IntKey(1) :> 2) @@ (IntKey(2) :> 3)
    /\ RatEq(idx.avg_doc_length, Rat(8, 3))
    /\ \A t \in {"a", "b", "c"} : get_document_frequency(idx, t) = 2
    /\ \A algorithm \in Algorithms :
         \A order \in Orders(candidate_docs(idx, <<"a">>)) :
           /\ search(idx, algorithm, <<"a">>, DefaultTopK, order).err = "none"
           /\ DocIds(search(idx, algorithm, <<"a">>, DefaultTopK, order).value)
                = <<IntKey(0), IntKey(2)>>
    /\ (call.op = "search" /\ call.query_tokens = <<"a">>) =>
         DocIds(call.results) = SubSeq(<<IntKey(0), IntKey(2)>>, 1, Min(call.top_k, 2))
    /\ calculate_tfidf_score(idx, <<"a">>, IntKey(0)).v
         = (2 * LogRatio(3, 2).v * LenScale) \div 3
    /\ calculate_tfidf_score(idx, <<"a">>, IntKey(0)).v
         = 2 * calculate_tfidf_score(idx, <<"a">>, IntKey(2)).v
    /\ calculate_tfidf_score(idx, <<"a">>, IntKey(2)).v > 0
    /\ calculate_tfidf_score(idx, <<"a">>, IntKey(1)).v = 0
    /\ calculate_idf(idx, "a") = LogRatio(16, 10)

C20_Witness ==
  /\ documents = ExampleCorpus /\ pc = "built"
  /\ call.op = "search" /\ call.algorithm = "tfidf"
  /\ call.query_tokens = <<"a">>
  /\ DocIds(call.results) = <<IntKey(0), IntKey(2)>>

\* a ranked list compared against itself
SelfComparison(ids, top_k) == ranking_statistics(ids, ids, top_k)

\* the lists an analytics call retrieved
Retrieved == {call.records.tfidf, call.records.bm25}

RankingCall == call.op = "calculate_ranking_statistics" /\ call.err = "none"

\* C17, as stated: a ranked list compared against itself has, for every
\* query and every positive top_k, overlap_count = top_k,
\* overlap_percentage = 100 and rank_correlation = 1.0.
C17_SelfComparisonIsFull ==
  RankingCall =>
    \A ids \in Retrieved :
      /\ SelfComparison(ids, call.top_k).overlap_count = call.top_k
      /\ RatEq(SelfComparison(ids, call.top_k).overlap_percentage, Rat(100, 1))
      /\ ~SelfComparison(ids, call.top_k).rank_correlation.nan
      /\ RatEq(SelfComparison(ids, call.top_k).rank_correlation.v, Rat(1, 1))

\* C17, amended: a ranked list compared against itself has overlap_count
\* equal to the length of the list, overlap_percentage = length / top_k * 100
\* and no unique documents; when the list has top_k entries the overlap is
\* top_k (100%), and when it has two entries or more the rank correlation
\* is 1; an empty list has correlation 0.
C17_SelfComparison ==
  RankingCall =>
    \A ids \in Retrieved :
      /\ SelfComparison(ids, call.top_k).overlap_count = Len(ids)
      /\ SelfComparison(ids, call.top_k).overlap_percentage
           = Rat(Len(ids) * 100, call.top_k)
      /\ SelfComparison(ids, call.top_k).tfidf_unique = 0
      /\ SelfComparison(ids, call.top_k).bm25_unique = 0
      /\ Len(ids) = call.top_k =>
           /\ SelfComparison(ids, call.top_k).overlap_count = call.top_k
           /\ RatEq(SelfComparison(ids, call.top_k).overlap_percentage,
                    Rat(100, 1))
      /\ Len(ids) >= 2 =>
           /\ ~SelfComparison(ids, call.top_k).rank_correlation.nan
           /\ RatEq(SelfComparison(ids, call.top_k).rank_correlation.v,
                    Rat(1, 1))
      /\ Len(ids) = 0 =>
           SelfComparison(ids, call.top_k).rank_correlation = Number(Rat(0, 1))
      /\ (call.records.tfidf = call.records.bm25) =>
           call.results = SelfComparison(ids, call.top_k)

C17_Witness ==
  /\ RankingCall
  /\ call.records.tfidf = call.records.bm25
  /\ Len(call.records.tfidf) = call.top_k
  /\ call.top_k >= 2
  /\ call.results.overlap_count = call.top_k
  /\ RatEq(call.results.rank_correlation.v, Rat(1, 1))

\* C18: calculate_ranking_statistics invokes the correlation routine only
\* when the two lists share at least 2 document ids, then over exactly the
\* shared ids with each list's 0-based positions; with 0 or 1 shared ids it
\* reports rank_correlation = 0, a number, without invoking the routine.
C18_CorrelationNeedsTwoShared ==
  RankingCall =>
    /\ ~call.results.rank_correlation.nan
    /\ call.results.called <=> call.results.overlap_count >= 2
    /\ call.results.overlap_count < 2 =>
         call.results.rank_correlation = Number(Rat(0, 1))
    /\ call.results.overlap_count >= 2 =>
         call.results.rank_correlation
           = spearmanr(call.records.tfidf, call.records.bm25,
                       IdSet(call.records.tfidf) \cap IdSet(call.records.bm25))

\* the score of the call made, had the term occurred tf times in the document
ScoreAtTf(tf) ==
  calculate_bm25_score(WithTf(idx, "a", IntKey(0), tf), <<"a">>, IntKey(0),
                       call.records.k1, call.records.b)

\* C21: with k1 > 0, 0 <= b <= 1, a positive idf and the same document
\* length and average length, the BM25 contribution of a term never
\* decreases when its term frequency increases: for all tf1 <= tf2 the
\* contribution at tf1 is at most the contribution at tf2.
C21_Bm25MonotoneInTf ==
  (call.op = "calculate_bm25_score" /\ calculate_idf(idx, "a").v > 0) =>
    /\ call.err = "none"
    /\ call.results[1][2] = ScoreAtTf(idx.index["a"][IntKey(0)]).v
    /\ \A tf1, tf2 \in 0 .. (MaxTf + 1) :
         tf1 <= tf2 =>
           /\ ScoreAtTf(tf1).err = "none"
           /\ ScoreAtTf(tf2).err = "none"
           /\ ScoreAtTf(tf1).v <= ScoreAtTf(tf2).v

C21_Witness ==
  /\ call.op = "calculate_bm25_score"
  /\ calculate_idf(idx, "a").v > 0
  /\ idx.index["a"][IntKey(0)] >= 2
  /\ call.records.k1 = DefaultK1 /\ call.records.b = DefaultB
  /\ ScoreAtTf(1).v < call.results[1][2]
  /\ 0 < ScoreAtTf(1).v

\* s is a prefix of t
IsPrefix(s, t) == Len(s) <= Len(t) /\ s = SubSeq(t, 1, Len(s))

\* C22: for every content string and maximum length m >= 0, _create_snippet
\* returns the content unchanged when its length is at most m, and otherwise
\* the first m characters of the content followed by the marker '...'; the
\* part before the marker is a prefix of the content of length at most m.
C22_SnippetIsPrefix ==
  call.op = "_create_snippet" =>
    /\ Len(call.query_tokens) <= call.top_k => call.results = call.query_tokens
    /\ Len(call.query_tokens) > call.top_k =>
         /\ Len(call.results) = call.top_k + 3
         /\ SubSeq(call.results, 1, call.top_k)
              = SubSeq(call.query_tokens, 1, call.top_k)
         /\ SubSeq(call.results, call.top_k + 1, call.top_k + 3) = Ellipsis
         /\ IsPrefix(SubSeq(call.results, 1, Len(call.results) - 3),
                     call.query_tokens)
    /\ \E n \in 0 .. call.top_k :
         /\ IsPrefix(SubSeq(call.results, 1, n), call.query_tokens)
         /\ call.results \in {SubSeq(call.query_tokens, 1, n),
                              SubSeq(call.query_tokens, 1, n) \o Ellipsis}

C22_Witness ==
  /\ call.op = "_create_snippet"
  /\ Len(call.query_tokens) = 3 /\ call.top_k = 2
  /\ call.results = SubSeq(call.query_tokens, 1, 2) \o Ellipsis

\* the query tokens that are terms of the index
IndexedTokens(self, query_tokens) ==
  {query_tokens[i] : i \in DOMAIN query_tokens} \cap DOMAIN self.index

\* the document contains one of the query tokens
HasQueryTerm(self, query_tokens, doc_id) ==
  \E i \in DOMAIN query_tokens :
    get_term_frequency(self, query_tokens[i], doc_id) >= 1

\* C23: the candidate set of search and search_tfidf is exactly the union,
\* over the query tokens that are terms of the index, of the document ids
\* in their postings: every returned document contains a query term with
\* term frequency >= 1, and every document containing a query term is a
\* candidate.
C23_CandidatesAreUnionOfPostings ==
  pc = "built" =>
    /\ call = NoCall =>
         \A q \in Queries :
           /\ candidate_docs(idx, q)
                = UNION {DOMAIN idx.index[t] : t \in IndexedTokens(idx, q)}
           /\ \A d \in DOMAIN idx.doc_lengths :
                HasQueryTerm(idx, q, d) <=> d \in candidate_docs(idx, q)
    /\ call.op = "search" =>
         /\ \A i \in DOMAIN call.results :
              /\ HasQueryTerm(idx, call.query_tokens, call.results[i][1])
              /\ call.results[i][1] \in candidate_docs(idx, call.query_tokens)
         /\ \A d \in DOMAIN idx.doc_lengths :
              HasQueryTerm(idx, call.query_tokens, d)
                => d \in candidate_docs(idx, call.query_tokens)

C23_Witness ==
  /\ pc = "built" /\ call.op = "search"
  /\ call.query_tokens = <<"a", "b">>
  /\ Cardinality(DOMAIN get_posting_list(idx, "a")) = 1
  /\ Cardinality(DOMAIN get_posting_list(idx, "b")) = 1
  /\ Cardinality(candidate_docs(idx, call.query_tokens)) = 2
  /\ Len(call.results) = 2

\* the sum of the term frequencies stored for the document
RECURSIVE TotalTf(_, _, _)
TotalTf(self, terms, doc_id) ==
  IF terms = {} THEN 0
  ELSE LET t == CHOOSE x \in terms : TRUE
       IN get_term_frequency(self, t, doc_id) + TotalTf(self, terms \ {t}, doc_id)

\* C25: after build_index on a fresh index over documents with unique ids,
\* for every document the term frequencies stored for it over all terms sum
\* to its doc_lengths entry, and doc_lengths has exactly num_docs keys.
C25_FrequenciesSumToLength ==
  pc = "built" =>
    /\ Cardinality(DOMAIN idx.doc_lengths) = idx.num_docs
    /\ DOMAIN idx.doc_lengths
         = {IntKey(documents[i].id) : i \in DOMAIN documents}
    /\ \A i \in DOMAIN documents :
         /\ idx.doc_lengths[IntKey(documents[i].id)] = Len(documents[i].tokens)
         /\ TotalTf(idx, DOMAIN idx.index, IntKey(documents[i].id))
              = idx.doc_lengths[IntKey(documents[i].id)]

C25_Witness ==
  /\ pc = "built" /\ idx.num_docs = 2
  /\ \E d \in DOMAIN idx.doc_lengths :
       /\ idx.doc_lengths[d] = 2
       /\ get_term_frequency(idx, "a", d) = 2
  /\ \E d \in DOMAIN idx.doc_lengths :
       /\ get_term_frequency(idx, "a", d) = 1
       /\ get_term_frequency(idx, "b", d) = 1

\* C26: on an index built from documents with unique ids, with the default
\* k1 and b, every candidate of a
\* BM25 search has a strictly positive score, so search drops no candidate
\* and returns exactly min(top_k, size of the candidate set) documents.
C26_Bm25KeepsEveryCandidate ==
  pc = "built" =>
    /\ call = NoCall =>
         \A q \in Queries : \A d \in candidate_docs(idx, q) :
           /\ calculate_bm25_score(idx, q, d, DefaultK1, DefaultB).err = "none"
           /\ calculate_bm25_score(idx, q, d, DefaultK1, DefaultB).v > 0
    /\ (call.op = "search" /\ call.algorithm = "bm25") =>
         /\ call.err = "none"
         /\ Len(call.results)
              = Min(call.top_k,
                    Cardinality(candidate_docs(idx, call.query_tokens)))
         /\ {call.results[i][1] : i \in DOMAIN call.results}
              \subseteq candidate_docs(idx, call.query_tokens)

\* a BM25 search returning both candidates of a query for which search_tfidf
\* returns fewer
C26_Witness ==
  /\ pc = "built" /\ call.op = "search" /\ call.algorithm = "bm25"
  /\ call.top_k = 2
  /\ Cardinality(candidate_docs(idx, call.query_tokens)) = 2
  /\ Len(call.results) = 2
  /\ \A order \in Orders(candidate_docs(idx, call.query_tokens)) :
       Len(search(idx, "tfidf", call.query_tokens, call.top_k, order).value) < 2

\* C24: every record returned by SearchEngine.search_bm25 and search_tfidf
\* carries the corpus document whose id field equals the record's doc_id,
\* for every corpus whose documents have unique integer ids, and building
\* the record never fails with an out-of-range lookup.
C24_RecordsCarryTheirDocument ==
  call.op = "engine_search" =>
    /\ call.err # "IndexError"
    /\ \A i \in DOMAIN call.records :
         /\ call.records[i].doc \in {documents[j] : j \in DOMAIN documents}
         /\ IntKey(call.records[i].doc.id) = call.records[i].doc_id

====
